---- MODULE Spec2Model ----
(***************************************************************************)
(* poorcal.calculator.Calculator: four binary operations on Python floats  *)
(* and the zero-divisor guard of divide.                                   *)
(*                                                                         *)
(* A Python float is an IEEE-754 binary floating-point number.  The model  *)
(* keeps the structure of the format (sign, subnormals, binades of 2^Prec  *)
(* significands, signed zeros, infinities, NaN, round-to-nearest-even,     *)
(* overflow to infinity, gradual underflow) at a reduced precision and     *)
(* exponent range.  A finite float is sign and magnitude, the magnitude    *)
(* counted in units of 2^-FracBits (the smallest subnormal).               *)
(***************************************************************************)
EXTENDS Integers, FiniteSets, Sequences, TLC

\* Significand bits of the float format (53 for a Python float).
Prec == 3
\* The smallest subnormal is 2^-FracBits.
FracBits == 1
\* Binades above 1.0: the largest finite float is (2^Prec - 1) * 2^ExpMax.
ExpMax == 2

KMax == FracBits + ExpMax

\* Magnitudes of the finite floats, in units of 2^-FracBits.
Mags == {m * (2^k) : m \in 0..(2^Prec - 1), k \in 0..KMax}
MaxMag == (2^Prec - 1) * (2^KMax)
\* The smallest normal magnitude; below it the floats are subnormal.
MinNormal == 2^(Prec - 1)

Fin(s, n) == [cls |-> "fin", neg |-> s, mag |-> n]
Inf(s) == [cls |-> "inf", neg |-> s, mag |-> 0]
NaN == [cls |-> "nan", neg |-> FALSE, mag |-> 0]

Finite == {Fin(s, n) : s \in BOOLEAN, n \in Mags}
Floats == Finite \cup {Inf(FALSE), Inf(TRUE), NaN}

IsFinite(x) == x.cls = "fin"
IsZero(x) == x.cls = "fin" /\ x.mag = 0
\* The float of a small integer, and of an odd number of halves.
FromInt(i) == Fin(i < 0, (IF i < 0 THEN -i ELSE i) * (2^FracBits))
FromHalves(h) == Fin(h < 0, (IF h < 0 THEN -h ELSE h) * (2^(FracBits - 1)))

\* The signed value of a finite float, in units.
Val(x) == IF x.neg THEN -x.mag ELSE x.mag
Abs(i) == IF i < 0 THEN -i ELSE i

\* Round the exact magnitude num/den (in units) to the nearest float, ties to
\* the even significand; a result beyond the largest finite float is infinite.
RoundHalfEven(num, d) ==
    LET q == num \div d
        r == num % d
    IN  IF 2 * r < d THEN q
        ELSE IF 2 * r > d THEN q + 1
        ELSE IF q % 2 = 0 THEN q ELSE q + 1

Round(s, num, den) ==
    LET ks == {k \in 0..KMax : num < (2^(Prec + k)) * den}
    IN  IF ks = {} THEN Inf(s)
        ELSE LET k == CHOOSE j \in ks : \A i \in ks : j <= i
                 m == RoundHalfEven(num, den * (2^k))
             IN  IF m = 2^Prec /\ k = KMax THEN Inf(s) ELSE Fin(s, m * (2^k))

\* float.__neg__
FNeg(x) == IF x.cls = "nan" THEN NaN ELSE [x EXCEPT !.neg = ~x.neg]

\* float.__add__
FAdd(x, y) ==
    IF x.cls = "nan" \/ y.cls = "nan" THEN NaN
    ELSE IF x.cls = "inf" /\ y.cls = "inf"
         THEN IF x.neg = y.neg THEN x ELSE NaN
    ELSE IF x.cls = "inf" THEN x
    ELSE IF y.cls = "inf" THEN y
    ELSE LET t == Val(x) + Val(y)
         IN  IF t = 0 THEN Fin(x.neg /\ y.neg, 0)
             ELSE Round(t < 0, Abs(t), 1)

\* float.__sub__
FSub(x, y) == FAdd(x, FNeg(y))

\* float.__mul__
FMul(x, y) ==
    LET s == (x.neg # y.neg)
    IN  IF x.cls = "nan" \/ y.cls = "nan" THEN NaN
        ELSE IF x.cls = "inf" \/ y.cls = "inf"
             THEN IF IsZero(x) \/ IsZero(y) THEN NaN ELSE Inf(s)
        ELSE Round(s, x.mag * y.mag, 2^FracBits)

\* The quotient of two floats, the divisor not a zero.
FDiv(x, y) ==
    LET s == (x.neg # y.neg)
    IN  IF x.cls = "nan" \/ y.cls = "nan" THEN NaN
        ELSE IF x.cls = "inf"
             THEN IF y.cls = "inf" THEN NaN ELSE Inf(s)
        ELSE IF y.cls = "inf" THEN Fin(s, 0)
        ELSE Round(s, x.mag * (2^FracBits), y.mag)

\* float.__eq__: NaN equals nothing, the two zeros are equal.
PyEq(x, y) ==
    /\ x.cls # "nan"
    /\ y.cls # "nan"
    /\ \/ x = y
       \/ IsZero(x) /\ IsZero(y)

\* An outcome of a call: a returned float, or a raised exception.
Return(v) == [kind |-> "return", val |-> v]
Raise(e, m) == [kind |-> "raise", exc |-> e, msg |-> m]
NoOutcome == [kind |-> "none"]

\* float.__truediv__: Python raises ZeroDivisionError on a zero divisor.
PyTrueDiv(x, y) ==
    IF IsZero(y) THEN Raise("ZeroDivisionError", "float division by zero")
    ELSE Return(FDiv(x, y))

\* The methods of Calculator.  Each takes the instance's attributes (self_)
\* and the two arguments, and gives the outcome and the attributes it leaves.
\* add keeping a running total in the instance.
add_keeping_total(self_, a, b) ==
    LET prev == IF self_ = {} THEN FromInt(0)
                ELSE (CHOOSE p \in self_ : p[1] = "total")[2]
        v == FAdd(FAdd(a, b), prev)
    IN  [out |-> Return(v), self |-> {<<"total", v>>}]

\* add with the operator of subtract.
add_as_subtract(self_, a, b) == [out |-> Return(FSub(a, b)), self |-> self_]

add(self_, a, b) == [out |-> Return(FAdd(a, b)), self |-> self_]

\* subtract with its operands swapped.
subtract_swapped(self_, a, b) == [out |-> Return(FSub(b, a)), self |-> self_]

subtract(self_, a, b) == [out |-> Return(FSub(a, b)), self |-> self_]

\* multiply with the operator of add.
multiply_as_add(self_, a, b) == [out |-> Return(FAdd(a, b)), self |-> self_]

multiply(self_, a, b) == [out |-> Return(FMul(a, b)), self |-> self_]

\* divide, line by line: the guard `if b == 0`, the raise, the return.
\* The guard testing the dividend instead of the divisor.
divide_guard_on_dividend(self_, a, b) == PyEq(a, FromInt(0))

\* The guard as `b <= 0`.
divide_guard_not_positive(self_, a, b) ==
    b.cls # "nan" /\ (IsZero(b) \/ b.neg)

divide_guard(self_, a, b) == PyEq(b, FromInt(0))

\* The raise replaced by a default value.
divide_raise_default(self_, a, b) ==
    [out |-> Return(FromInt(0)), self |-> self_]

divide_raise(self_, a, b) ==
    [out |-> Raise("ValueError", "The divisor cannot be zero"), self |-> self_]

\* The return with the operator of multiply.
divide_return_as_multiply(self_, a, b) ==
    [out |-> Return(FMul(a, b)), self |-> self_]

\* The return keeping the first quotient in the instance and returning it
\* ever after.
divide_return_memo(self_, a, b) ==
    IF self_ # {} THEN
        [out |-> Return((CHOOSE p \in self_ : p[1] = "memo")[2]), self |-> self_]
    ELSE LET r == PyTrueDiv(a, b)
         IN  [out |-> r,
              self |-> IF r.kind = "return" THEN {<<"memo", r.val>>} ELSE self_]

\* The return with the operands of the division swapped.
divide_return_swapped(self_, a, b) == [out |-> PyTrueDiv(b, a), self |-> self_]

divide_return(self_, a, b) == [out |-> PyTrueDiv(a, b), self |-> self_]

divide(self_, a, b) ==
    IF divide_guard(self_, a, b) THEN divide_raise(self_, a, b)
    ELSE divide_return(self_, a, b)

Ops == {"add", "subtract", "multiply", "divide"}

\* A whole call of method op, run with nothing interleaved.
Invoke(op, self_, a, b) ==
    CASE op = "add" -> add(self_, a, b)
      [] op = "subtract" -> subtract(self_, a, b)
      [] op = "multiply" -> multiply(self_, a, b)
      [] op = "divide" -> divide(self_, a, b)

\* The line a call of op starts at.
Entry(op) ==
    CASE op = "add" -> "line6"
      [] op = "subtract" -> "line10"
      [] op = "multiply" -> "line14"
      [] op = "divide" -> "line18"

\* Callers of the sequential specification, and of the concurrent one.
NumCallers == 2
SeqCallers == {1}
ConcCallers == 1..NumCallers
\* The arguments the concurrent callers draw from.
ConcArgs == {FromInt(0), FromInt(2)}

\* self: the attributes (__dict__) of the one Calculator instance, a set of
\* <<name, value>> pairs.  frames: each caller's activation of a method: the
\* line it is at, the method, its locals a and b, its outcome once it has
\* one, and rt, the a of a round trip divide(multiply(a, b), b) in progress.
\* raised: whether a call on the instance has ended in an exception so far.
VARIABLES self, frames, raised

vars == <<self, frames, raised>>

NoRoundTrip == [on |-> FALSE, a |-> FromInt(0)]
IdleFrame ==
    [pc |-> "idle", op |-> "none", a |-> FromInt(0), b |-> FromInt(0),
     out |-> NoOutcome, rt |-> NoRoundTrip]

\* Calculator() sets no attribute.
NewSelf == {}

Init ==
    /\ self = NewSelf
    /\ frames = [c \in SeqCallers |-> IdleFrame]
    /\ raised = FALSE

ConcInit ==
    /\ self = NewSelf
    /\ frames = [c \in ConcCallers |-> IdleFrame]
    /\ raised = FALSE

\* A caller invokes calc.op(a, b), the arguments any two of Args.
Call(c, Args) ==
    /\ frames[c].pc = "idle"
    /\ \E op \in Ops, a \in Args, b \in Args :
         frames' = [frames EXCEPT ![c] =
                      [pc |-> Entry(op), op |-> op, a |-> a, b |-> b,
                       out |-> NoOutcome, rt |-> NoRoundTrip]]
    /\ UNCHANGED <<self, raised>>

\* The frame after its method has ended with result r.
Ended(f, r) == [f EXCEPT !.pc = "done", !.out = r.out]

\* return a + b
Line6(c) ==
    /\ frames[c].pc = "line6"
    /\ LET f == frames[c]
           r == add(self, f.a, f.b)
       IN  /\ self' = r.self
           /\ frames' = [frames EXCEPT ![c] = Ended(f, r)]
           /\ raised' = (raised \/ r.out.kind = "raise")

\* return a - b
Line10(c) ==
    /\ frames[c].pc = "line10"
    /\ LET f == frames[c]
           r == subtract(self, f.a, f.b)
       IN  /\ self' = r.self
           /\ frames' = [frames EXCEPT ![c] = Ended(f, r)]
           /\ raised' = (raised \/ r.out.kind = "raise")

\* return a * b
Line14(c) ==
    /\ frames[c].pc = "line14"
    /\ LET f == frames[c]
           r == multiply(self, f.a, f.b)
       IN  /\ self' = r.self
           /\ frames' = [frames EXCEPT ![c] = Ended(f, r)]
           /\ raised' = (raised \/ r.out.kind = "raise")

\* if b == 0:
Line18(c) ==
    /\ frames[c].pc = "line18"
    /\ LET f == frames[c]
       IN  frames' = [frames EXCEPT ![c].pc =
                        IF divide_guard(self, f.a, f.b) THEN "line19"
                        ELSE "line20"]
    /\ UNCHANGED <<self, raised>>

\* raise ValueError("The divisor cannot be zero")
Line19(c) ==
    /\ frames[c].pc = "line19"
    /\ LET f == frames[c]
           r == divide_raise(self, f.a, f.b)
       IN  /\ self' = r.self
           /\ frames' = [frames EXCEPT ![c] = Ended(f, r)]
           /\ raised' = (raised \/ r.out.kind = "raise")

\* return a / b
Line20(c) ==
    /\ frames[c].pc = "line20"
    /\ LET f == frames[c]
           r == divide_return(self, f.a, f.b)
       IN  /\ self' = r.self
           /\ frames' = [frames EXCEPT ![c] = Ended(f, r)]
           /\ raised' = (raised \/ r.out.kind = "raise")

\* The caller has the outcome; the activation is gone.
Finish(c) ==
    /\ frames[c].pc = "done"
    /\ frames' = [frames EXCEPT ![c] = IdleFrame]
    /\ UNCHANGED <<self, raised>>

\* The caller passes the product it got on: divide(multiply(a, b), b).
RoundTrip(c) ==
    /\ frames[c].pc = "done"
    /\ frames[c].op = "multiply"
    /\ frames[c].out.kind = "return"
    /\ LET f == frames[c]
       IN  frames' = [frames EXCEPT ![c] =
                        [pc |-> Entry("divide"), op |-> "divide",
                         a |-> f.out.val, b |-> f.b, out |-> NoOutcome,
                         rt |-> [on |-> TRUE, a |-> f.a]]]
    /\ UNCHANGED <<self, raised>>

Step(c, Args) ==
    \/ Call(c, Args)
    \/ Line6(c)
    \/ Line10(c)
    \/ Line14(c)
    \/ Line18(c)
    \/ Line19(c)
    \/ Line20(c)
    \/ Finish(c)
    \/ RoundTrip(c)

\* One caller, every float as argument.
Next == \E c \in SeqCallers : Step(c, Floats)

Spec == Init /\ [][Next]_vars

\* Several callers on the one instance, their lines interleaved.
ConcNext == \E c \in ConcCallers : Step(c, ConcArgs)

ConcSpec == ConcInit /\ [][ConcNext]_vars

TypeOK ==
    /\ \A c \in DOMAIN frames :
         /\ frames[c].pc \in {"idle", "line6", "line10", "line14", "line18",
                              "line19", "line20", "done"}
         /\ frames[c].a \in Floats
         /\ frames[c].b \in Floats

(***************************************************************************)
(* What the claims are stated with.                                        *)
(***************************************************************************)
Zero == FromInt(0)
Callers == DOMAIN frames
\* The callers whose call of op has ended.
EndedCalls(op) == {c \in Callers : frames[c].pc = "done" /\ frames[c].op = op}

\* r is the exact magnitude num/den (in units) with sign s, rounded to a
\* nearest float: no float is nearer, and r is infinite exactly when num/den
\* is half a step or more beyond the largest finite float.
CorrectlyRounded(r, s, num, den) ==
    LET over == 2 * num >= (2 * MaxMag + 2^KMax) * den
    IN  /\ r.cls \in {"fin", "inf"}
        /\ r.neg = s
        /\ (r.cls = "inf") <=> over
        /\ r.cls = "fin" =>
             \A g \in Mags : Abs(num - r.mag * den) <= Abs(num - g * den)

\* r is the sum of the exact values t (in units), correctly rounded.
IsRoundedSum(r, t) ==
    IF t = 0 THEN IsZero(r) ELSE CorrectlyRounded(r, t < 0, Abs(t), 1)

\* C1: every ended divide(a, b) with b == 0, whatever a, has raised ValueError
\* with the message "The divisor cannot be zero" and holds no result value.
C1_DivideByZeroRaisesValueError ==
    \A c \in EndedCalls("divide") :
        PyEq(frames[c].b, Zero) =>
            /\ frames[c].out.kind = "raise"
            /\ frames[c].out.exc = "ValueError"
            /\ frames[c].out.msg = "The divisor cannot be zero"
            /\ "val" \notin DOMAIN frames[c].out

\* divide(1, -0.0) has ended in ValueError.
C1_Witness ==
    \E c \in EndedCalls("divide") :
        /\ frames[c].a = FromInt(1)
        /\ frames[c].b = Fin(TRUE, 0)
        /\ frames[c].out = Raise("ValueError", "The divisor cannot be zero")

\* C2: every ended divide(a, b) with b != 0 has returned, not raised; for
\* finite a and b the value is the exact quotient a / b correctly rounded, and
\* divide(10, 2) is 5.0.
C2_DivideReturnsQuotient ==
    \A c \in EndedCalls("divide") :
        LET f == frames[c]
        IN  ~PyEq(f.b, Zero) =>
              /\ f.out.kind = "return"
              /\ (IsFinite(f.a) /\ IsFinite(f.b)) =>
                    CorrectlyRounded(f.out.val, f.a.neg # f.b.neg,
                                     f.a.mag * (2^FracBits), f.b.mag)
              /\ (f.a = FromInt(10) /\ f.b = FromInt(2)) =>
                    f.out.val = FromInt(5)

\* divide(10, 2) has returned 5.0.
C2_Witness ==
    \E c \in EndedCalls("divide") :
        /\ frames[c].a = FromInt(10)
        /\ frames[c].b = FromInt(2)
        /\ frames[c].out = Return(FromInt(5))

\* C3: every ended add, subtract and multiply has returned a value, for every
\* pair of floats; an ended divide has raised if and only if b == 0.
C3_OnlyDivideByZeroFails ==
    \A c \in Callers :
        LET f == frames[c]
        IN  f.pc = "done" =>
              /\ f.out.kind \in {"return", "raise"}
              /\ f.op \in {"add", "subtract", "multiply"} =>
                    f.out.kind = "return"
              /\ f.op = "divide" =>
                    ((f.out.kind = "raise") <=> PyEq(f.b, Zero))

\* After a failed divide, a divide of zero by a negative float has returned.
C3_Witness ==
    /\ raised
    /\ \E c \in EndedCalls("divide") :
        /\ frames[c].b = FromInt(-2)
        /\ frames[c].a = Zero
        /\ frames[c].out.kind = "return"

\* C4: every ended add(a, b) of finite a and b has returned the exact sum
\* a + b correctly rounded, which equals (==) what add(b, a) returns;
\* add(2, 3) is 5.
C4_AddIsSumAndCommutes ==
    \A c \in EndedCalls("add") :
        LET f == frames[c]
        IN  (IsFinite(f.a) /\ IsFinite(f.b)) =>
              /\ f.out.kind = "return"
              /\ IsRoundedSum(f.out.val, Val(f.a) + Val(f.b))
              /\ PyEq(f.out.val, add(self, f.b, f.a).out.val)
              /\ (f.a = FromInt(2) /\ f.b = FromInt(3)) =>
                    f.out.val = FromInt(5)

\* add(2, 3) has returned 5.
C4_Witness ==
    \E c \in EndedCalls("add") :
        /\ frames[c].a = FromInt(2)
        /\ frames[c].b = FromInt(3)
        /\ frames[c].out = Return(FromInt(5))

\* C5: every ended subtract(a, b) of finite a and b has returned the exact
\* difference a - b correctly rounded, which equals (==) the negation of what
\* subtract(b, a) returns; subtract(5, 3) is 2.
C5_SubtractIsDifferenceAndAntisymmetric ==
    \A c \in EndedCalls("subtract") :
        LET f == frames[c]
        IN  (IsFinite(f.a) /\ IsFinite(f.b)) =>
              /\ f.out.kind = "return"
              /\ IsRoundedSum(f.out.val, Val(f.a) - Val(f.b))
              /\ PyEq(f.out.val, FNeg(subtract(self, f.b, f.a).out.val))
              /\ (f.a = FromInt(5) /\ f.b = FromInt(3)) =>
                    f.out.val = FromInt(2)

\* subtract(5, 3) has returned 2.
C5_Witness ==
    \E c \in EndedCalls("subtract") :
        /\ frames[c].a = FromInt(5)
        /\ frames[c].b = FromInt(3)
        /\ frames[c].out = Return(FromInt(2))

\* C6: every ended multiply(a, b) of finite a and b has returned the exact
\* product a * b correctly rounded, which equals (==) what multiply(b, a)
\* returns; multiply(4, 2.5) is 10.0.
C6_MultiplyIsProductAndCommutes ==
    \A c \in EndedCalls("multiply") :
        LET f == frames[c]
        IN  (IsFinite(f.a) /\ IsFinite(f.b)) =>
              /\ f.out.kind = "return"
              /\ CorrectlyRounded(f.out.val, f.a.neg # f.b.neg,
                                  f.a.mag * f.b.mag, 2^FracBits)
              /\ PyEq(f.out.val, multiply(self, f.b, f.a).out.val)
              /\ (f.a = FromInt(4) /\ f.b = FromHalves(5)) =>
                    f.out.val = FromInt(10)

\* multiply(4, 2.5) has returned 10.0.
C6_Witness ==
    \E c \in EndedCalls("multiply") :
        /\ frames[c].a = FromInt(4)
        /\ frames[c].b = FromHalves(5)
        /\ frames[c].out = Return(FromInt(10))

\* The spacing of the floats at x: one unit in the last place of x.
Ulp(x) ==
    LET ks == {k \in 0..KMax : x.mag < 2^(Prec + k)}
    IN  2^(CHOOSE j \in ks : \A i \in ks : j <= i)

Within1Ulp(r, x) == IsFinite(r) /\ Abs(Val(r) - Val(x)) <= Ulp(x)

\* x is a whole number.
IsInteger(x) == IsFinite(x) /\ x.mag % (2^FracBits) = 0

\* The callers whose round trip divide(multiply(a, b), b), b != 0, has ended.
\* The frame holds the divide: its a is the product, rt.a the a of the trip.
EndedRoundTrips ==
    {c \in EndedCalls("divide") :
        frames[c].rt.on /\ ~PyEq(frames[c].b, Zero)}

RealRoundTrips ==
    {c \in EndedRoundTrips : IsFinite(frames[c].rt.a) /\ IsFinite(frames[c].b)}

\* The product of the round trip in f was computed without rounding.
ExactProduct(f) ==
    IsFinite(f.a) /\ f.a.mag * (2^FracBits) = f.rt.a.mag * f.b.mag

\* The product of the round trip in f neither overflowed nor underflowed.
ProductInRange(f) ==
    IsFinite(f.a) /\ (f.a.mag >= MinNormal \/ ExactProduct(f))

\* C7 as stated: every ended round trip divide(multiply(a, b), b) of finite a
\* and b, b != 0, has returned a value within one unit in the last place of a,
\* and exactly a when a and b are whole numbers.
C7_RoundTripAsStated ==
    \A c \in RealRoundTrips :
        LET f == frames[c]
        IN  /\ f.out.kind = "return"
            /\ Within1Ulp(f.out.val, f.rt.a)
            /\ (IsInteger(f.rt.a) /\ IsInteger(f.b)) => PyEq(f.out.val, f.rt.a)

\* C7, amended: every ended round trip with b != 0 has returned, not raised;
\* for finite a and b whose product neither overflowed nor underflowed the
\* value is within one unit in the last place of a, and it is exactly a when
\* the product a * b was computed without rounding.
C7_RoundTripWithinRange ==
    /\ \A c \in EndedRoundTrips : frames[c].out.kind = "return"
    /\ \A c \in RealRoundTrips :
        LET f == frames[c]
        IN  /\ ProductInRange(f) => Within1Ulp(f.out.val, f.rt.a)
            /\ ExactProduct(f) => PyEq(f.out.val, f.rt.a)

\* The round trip divide(multiply(-3, 3), 3) has ended: the product was in
\* range but rounded, and the value is next to -3, not -3.
C7_Witness ==
    \E c \in RealRoundTrips :
        LET f == frames[c]
        IN  /\ f.rt.a = FromInt(-3)
            /\ f.b = FromInt(3)
            /\ ProductInRange(f)
            /\ ~ExactProduct(f)
            /\ ~PyEq(f.out.val, f.rt.a)
            /\ Within1Ulp(f.out.val, f.rt.a)

\* C8: the instance holds no attribute at any time, and every ended call,
\* whatever was called on the instance before (failed divides included), has
\* the outcome the same call has on a fresh instance.
C8_StatelessAndDeterministic ==
    /\ self = NewSelf
    /\ \A c \in Callers :
         LET f == frames[c]
         IN  f.pc = "done" => f.out = Invoke(f.op, NewSelf, f.a, f.b).out

\* After a divide on the instance has failed, add(2, 3) has returned 5 and
\* the instance still holds no attribute.
C8_Witness ==
    /\ raised
    /\ self = NewSelf
    /\ \E c \in EndedCalls("add") :
         /\ frames[c].a = FromInt(2)
         /\ frames[c].b = FromInt(3)
         /\ frames[c].out = Return(FromInt(5))

\* C9: with several callers in their calls at once, their lines interleaved
\* in every order, every ended call has the outcome it has when run alone.
C9_ConcurrentCallsAsAlone ==
    \A c \in Callers :
        LET f == frames[c]
            alone == Invoke(f.op, NewSelf, f.a, f.b)
        IN  f.pc = "done" => (f.out = alone.out /\ self = alone.self)

\* divide(2, 2) has returned 1.0 to one caller while another caller is in the
\* middle of divide(2, 0), past the guard and before the raise.
C9_Witness ==
    \E c \in Callers, d \in Callers :
        /\ c # d
        /\ frames[c].pc = "done"
        /\ frames[c].op = "divide"
        /\ frames[c].a = FromInt(2)
        /\ frames[c].b = FromInt(2)
        /\ frames[c].out = Return(FromInt(1))
        /\ frames[d].pc = "line19"
        /\ frames[d].a = FromInt(2)

\* C10: a divide is at the division (line 20) only with b != 0, a divide with
\* b == 0 goes from the guard straight to the raise and from the raise
\* straight to its end in ValueError, and it never ends with a value.
C10_ZeroDivisorFailsAtOnce ==
    /\ [](\A c \in Callers :
            LET f == frames[c]
            IN  /\ f.pc = "line20" => ~PyEq(f.b, Zero)
                /\ (f.pc = "done" /\ f.op = "divide" /\ PyEq(f.b, Zero)) =>
                      f.out.kind = "raise")
    /\ [][\A c \in Callers :
            LET f == frames[c]
            IN  (f.op = "divide" /\ PyEq(f.b, Zero) /\ frames'[c] # f) =>
                  /\ f.pc = "line18" => frames'[c] = [f EXCEPT !.pc = "line19"]
                  /\ f.pc = "line19" =>
                       frames'[c] =
                         [f EXCEPT !.pc = "done",
                                   !.out = Raise("ValueError",
                                                 "The divisor cannot be zero")]
         ]_vars

\* A divide(10, 0) is past the guard, at the raise, with no outcome yet.
C10_Witness ==
    \E c \in Callers :
        /\ frames[c].pc = "line19"
        /\ frames[c].a = FromInt(10)
        /\ frames[c].b = Zero
        /\ frames[c].out = NoOutcome
====
